---- MODULE Spec2Model ----
(***************************************************************************)
(* M5Core2 kalimba: the two sketches of the repository as state machines.  *)
(*   variant 1  src/unnamed/part_000   single active tine, semitone shift  *)
(*   variant 2  src/M5Kalinba.ino      slide-aware, pluck + release note   *)
(* One step of a specification is one iteration of the sketch's loop().    *)
(***************************************************************************)
EXTENDS Integers, Sequences, FiniteSets, TLC

VARIABLES
    sketch,             \* which sketch the device runs: 1 or 2
    \* ---- variant 1 (src/unnamed/part_000)
    key_pressed,        \* bool key_pressed[17]
    active_note_pitch,  \* uint8_t, pitch of the note being played
    active_tine,        \* int8_t, -1 = none
    prev_offset,        \* static int8_t of drawModeIndicator
    touch,              \* M5.Touch after M5.update(): points, point[0], changed
    btnA, btnC,         \* M5.BtnA.isPressed(), M5.BtnC.isPressed()
    synth1,             \* synth commands sent during the last loop()
    lcd1,               \* drawTine calls made during the last loop()
    idx1,               \* indices used on key_pressed and tine_notes in the last loop()
    tineShown,          \* per tine: what drawTine drew last (TRUE = pressed colour)
    indicator,          \* mode indicator glyph on the screen
    sounding1,          \* pitches switched on and not off again on the synth
    hold,               \* history: the press being held (see HoldAfter)
    lifts,              \* history: the ticks without touch (see LiftsAfter)
    \* ---- variant 2 (src/M5Kalinba.ino)
    selectedBar,        \* int, -1 = none
    lastPressedBar,     \* int, -1 = none
    wasPressed,         \* bool, isPressed of the previous loop()
    press,              \* M5.Touch.ispressed() and getPressPoint() of the last loop()
    synth2,             \* synth commands sent during the last loop()
    lcd2,               \* drawSingleBar calls made during the last loop()
    idx2,               \* indices used on notes and noteNames in the last loop()
    barShown,           \* per bar: colour drawSingleBar drew last (TRUE = highlight)
    sustained,          \* history: pitches a release has switched on
    slide,              \* history: the bars and commands of the current press
    idle2,              \* history: the ticks without press (see IdleAfter)
    tally,              \* history: note-ons minus note-offs, and releases fired
    \* ---- hit-test harness (pure functions of both sketches)
    hx, hy,             \* the coordinate under test
    hit1, hit2,         \* results of the two hit tests
    tested,             \* whether the hit tests have been called
    \* ---- layout harness (height functions of both sketches)
    lpos, lother,       \* the two positions under test
    tineH,              \* getTineHeight of lpos and of lother, <<>> before the call
    barH                \* getBarHeight of lpos and of lother, <<>> before the call

vars1 == <<key_pressed, active_note_pitch, active_tine, prev_offset, touch,
           btnA, btnC, synth1, lcd1, idx1, tineShown, indicator, sounding1, hold, lifts>>
vars2 == <<selectedBar, lastPressedBar, wasPressed, press, synth2, lcd2, idx2,
           barShown, sustained, slide, idle2, tally>>
varsH == <<hx, hy, hit1, hit2, tested>>
varsL == <<lpos, lother, tineH, barH>>
vars == <<sketch, vars1, vars2, varsH, varsL>>

Sketches == {1, 2}

(***************************************************************************)
(* Variant 1: constants and layout                                         *)
(***************************************************************************)
NumTines == 17
Tines == 0 .. (NumTines - 1)

TineNotesTable == <<86, 83, 79, 76, 72, 69, 65, 62, 60, 64, 67, 71, 74, 77, 81, 84, 88>>
tine_notes(pos) == TineNotesTable[pos + 1]

DISPLAY_WIDTH == 320
DISPLAY_HEIGHT == 240
TINE_WIDTH == 16
TINE_GAP == 2
TINE_PITCH == TINE_WIDTH + TINE_GAP
TINE_START_X == (DISPLAY_WIDTH - (NumTines * TINE_PITCH - TINE_GAP)) \div 2
BRIDGE_Y == 22
TINE_CENTER_HEIGHT == 150
TINE_EDGE_STEP == 8
TineCenter == 8

getTineHeight(pos) ==
    LET d == pos - TineCenter
        dist == IF d < 0 THEN -d ELSE d
    IN  TINE_CENTER_HEIGHT - dist * TINE_EDGE_STEP

getTineX(pos) == TINE_START_X + pos * TINE_PITCH

\* mutant: the right edge test is <= instead of <
TineBandHas_WideRight(pos, x, y) ==
    LET tx == getTineX(pos)
        th == getTineHeight(pos)
        ty_bottom == BRIDGE_Y + th
    IN  x >= tx /\ x <= tx + TINE_WIDTH /\ y >= BRIDGE_Y /\ y <= ty_bottom

\* the body of the for loop of getKeyAtPosition: the band test of one tine
TineBandHas(pos, x, y) ==
    LET tx == getTineX(pos)
        th == getTineHeight(pos)
        ty_bottom == BRIDGE_Y + th
    IN  x >= tx /\ x < tx + TINE_WIDTH /\ y >= BRIDGE_Y /\ y <= ty_bottom

\* mutant: the scan stops one tine early
RECURSIVE ScanTines_Short(_, _, _)
ScanTines_Short(pos, x, y) ==
    IF pos >= NumTines - 1 THEN -1
    ELSE IF TineBandHas(pos, x, y) THEN pos
    ELSE ScanTines_Short(pos + 1, x, y)

RECURSIVE ScanTines(_, _, _)
ScanTines(pos, x, y) ==
    IF pos >= NumTines THEN -1
    ELSE IF TineBandHas(pos, x, y) THEN pos
    ELSE ScanTines(pos + 1, x, y)

getKeyAtPosition(x, y) ==
    IF y < BRIDGE_Y THEN -1 ELSE ScanTines(0, x, y)

(***************************************************************************)
(* Variant 1: loop()                                                       *)
(***************************************************************************)
NoteOn(p) == <<"on", p>>
NoteOff(p) == <<"off", p>>
IsOn(c) == c[1] = "on"
IsOff(c) == c[1] = "off"

\* mutant: the two tests in the other order, so flat wins when both are held
SemitoneOffset_FlatWins(a, c) ==
    LET o1 == IF c THEN 1 ELSE 0
    IN  IF a THEN -1 ELSE o1

\* lines 122-124: flat first, sharp second, so sharp wins when both are held
SemitoneOffset(a, c) ==
    LET o1 == IF a THEN -1 ELSE 0
    IN  IF c THEN 1 ELSE o1

\* drawModeIndicator: redraws only when the offset changed
IndicatorAfter(offset, prev, shown) ==
    IF offset = prev THEN shown
    ELSE IF offset = -1 THEN "b"
    ELSE IF offset = 1 THEN "#"
    ELSE ""

\* st: the sketch's globals plus what the tick has sent and drawn so far
St1(kp, pitch, tine, cmds, draws) ==
    [kp |-> kp, pitch |-> pitch, tine |-> tine, cmds |-> cmds, draws |-> draws,
     idx |-> {}]

\* mutant: the previous note is not released
ReleasePrevious_Skip(st, pos) == st

\* lines 136-140: release any previously active note first;
\* key_pressed[active_tine] is written, drawTine reads tine_notes[active_tine]
ReleasePrevious(st, pos) ==
    IF st.tine >= 0 /\ st.tine # pos
    THEN [st EXCEPT !.kp[st.tine] = FALSE,
                    !.cmds = Append(@, NoteOff(st.pitch)),
                    !.draws = Append(@, <<st.tine, FALSE>>),
                    !.idx = @ \cup {st.tine}]
    ELSE st

\* lines 141-145: acquire pos
Acquire(st, pos, offset) ==
    LET p == (tine_notes(pos) + offset) % 256
    IN  [st EXCEPT !.kp[pos] = TRUE,
                   !.tine = pos,
                   !.pitch = p,
                   !.cmds = Append(@, NoteOn(p)),
                   !.draws = Append(@, <<pos, TRUE>>),
                   !.idx = @ \cup {pos}]

\* mutant: the !key_pressed[pos] test is missing
PressBlock_NoGuard(st, t, offset) ==
    IF t.changed /\ t.points > 0
    THEN LET pos == getKeyAtPosition(t.x, t.y)
         IN  IF pos >= 0
             THEN Acquire(ReleasePrevious(st, pos), pos, offset)
             ELSE st
    ELSE st

\* mutant: a held tine is played again when the buttons give another pitch
PressBlock_Retune(st, t, offset) ==
    IF t.points > 0
    THEN LET pos == getKeyAtPosition(t.x, t.y)
         IN  IF pos >= 0
             THEN IF ~st.kp[pos]
                  THEN IF t.changed
                       THEN Acquire(ReleasePrevious(st, pos), pos, offset)
                       ELSE st
                  ELSE IF st.pitch # (tine_notes(pos) + offset) % 256
                       THEN Acquire([st EXCEPT !.cmds = Append(@, NoteOff(st.pitch))],
                                    pos, offset)
                       ELSE st
             ELSE st
    ELSE st

\* mutant: a touch beside the tines releases the active note
PressBlock_OffTineReleases(st, t, offset) ==
    IF t.changed /\ t.points > 0
    THEN LET pos == getKeyAtPosition(t.x, t.y)
         IN  IF pos >= 0
             THEN IF ~st.kp[pos]
                  THEN Acquire(ReleasePrevious(st, pos), pos, offset)
                  ELSE st
             ELSE ReleasePrevious(st, pos)
    ELSE st

\* lines 129-148; key_pressed[pos] is read once pos >= 0 has passed
PressBlock(st, t, offset) ==
    IF t.changed /\ t.points > 0
    THEN LET pos == getKeyAtPosition(t.x, t.y)
         IN  IF pos >= 0
             THEN LET rd == [st EXCEPT !.idx = @ \cup {pos}]
                  IN  IF ~st.kp[pos]
                      THEN Acquire(ReleasePrevious(rd, pos), pos, offset)
                      ELSE rd
             ELSE st
    ELSE st

\* mutant: the flag is not cleared when the note-off is sent
RECURSIVE ReleaseKeys_NoClear(_, _)
ReleaseKeys_NoClear(st, i) ==
    IF i >= NumTines THEN st
    ELSE IF st.kp[i]
         THEN ReleaseKeys_NoClear([st EXCEPT !.cmds = Append(@, NoteOff(st.pitch)),
                                             !.draws = Append(@, <<i, FALSE>>)], i + 1)
         ELSE ReleaseKeys_NoClear(st, i + 1)

\* mutant: the lift clears the flag without sending the note-off
RECURSIVE ReleaseKeys_NoOff(_, _)
ReleaseKeys_NoOff(st, i) ==
    IF i >= NumTines THEN st
    ELSE IF st.kp[i]
         THEN ReleaseKeys_NoOff([st EXCEPT !.kp[i] = FALSE,
                                           !.draws = Append(@, <<i, FALSE>>),
                                           !.idx = @ \cup {i}], i + 1)
         ELSE ReleaseKeys_NoOff([st EXCEPT !.idx = @ \cup {i}], i + 1)

\* lines 152-158: the for loop over key_pressed, from index i on
RECURSIVE ReleaseKeys(_, _)
ReleaseKeys(st, i) ==
    IF i >= NumTines THEN st
    ELSE IF st.kp[i]
         THEN ReleaseKeys([st EXCEPT !.kp[i] = FALSE,
                                     !.cmds = Append(@, NoteOff(st.pitch)),
                                     !.draws = Append(@, <<i, FALSE>>),
                                     !.idx = @ \cup {i}], i + 1)
         ELSE ReleaseKeys([st EXCEPT !.idx = @ \cup {i}], i + 1)

\* mutant: the lift clears the flags but not active_tine
ReleaseBlock_KeepTine(st, t) ==
    IF t.points = 0
    THEN [ReleaseKeys(st, 0) EXCEPT !.pitch = 0]
    ELSE st

\* lines 151-161
ReleaseBlock(st, t) ==
    IF t.points = 0
    THEN [ReleaseKeys(st, 0) EXCEPT !.tine = -1, !.pitch = 0]
    ELSE st

\* the synth: a note-on starts a pitch sounding, a note-off stops it
RECURSIVE SynthAfter(_, _)
SynthAfter(snd, cmds) ==
    IF cmds = <<>> THEN snd
    ELSE LET c == Head(cmds)
         IN  SynthAfter(IF c[1] = "on" THEN snd \cup {c[2]} ELSE snd \ {c[2]},
                        Tail(cmds))

\* the screen: each drawTine call repaints one tine
RECURSIVE ShownAfter(_, _)
ShownAfter(shown, draws) ==
    IF draws = <<>> THEN shown
    ELSE LET d == Head(draws)
         IN  ShownAfter([shown EXCEPT ![d[1]] = d[2]], Tail(draws))

(***************************************************************************)
(* Variant 1: inputs. M5.update() refreshes M5.Touch: changed is set       *)
(* exactly when the reported points differ from the previous read, and     *)
(* points/point[0] keep their values otherwise. With two fingers down the  *)
(* second point may be the one that moved, so changed can be set while     *)
(* point[0] is the same.                                                   *)
(* Sampled reads: one finger inside a tine, in the gap right of tine 0 and  *)
(* above the bridge; two fingers with the first on the centre tine.        *)
(* A finger can come down on every tine; while it is down it slides        *)
(* between the points of SlidePts1 only (some tines, the gap, the bridge). *)
(***************************************************************************)
SampleTines == {0, 6, 7, 8, 9, 16}

PtsOn(tines) ==
    {<<1, getTineX(p) + 1, BRIDGE_Y + 1>> : p \in tines}
    \cup {<<1, getTineX(0) + TINE_WIDTH, BRIDGE_Y + 1>>,
          <<1, getTineX(TineCenter) + 1, BRIDGE_Y - 1>>,
          <<2, getTineX(TineCenter) + 1, BRIDGE_Y + 1>>}

TouchPts1 == PtsOn(Tines)
SlidePts1 == {<<q[2], q[3]>> : q \in PtsOn(SampleTines)}

NoTouch == [points |-> 0, x |-> -1, y |-> -1, changed |-> FALSE]
ReadsOf(pts) ==
    {[points |-> 0, x |-> -1, y |-> -1, changed |-> ch] : ch \in BOOLEAN}
    \cup {[points |-> q[1], x |-> q[2], y |-> q[3], changed |-> ch] :
              q \in pts, ch \in BOOLEAN}

SamePoint(a, b) == a.points = b.points /\ a.x = b.x /\ a.y = b.y

TouchUpdate(old, new) ==
    /\ ~new.changed => SamePoint(old, new)
    /\ new.changed => (~SamePoint(old, new) \/ new.points >= 2)

\* the sampled finger movements: a finger that is down stays where it is or
\* slides from one point of SlidePts1 to another
FingerMove(old, new) ==
    (old.points > 0 /\ new.points > 0)
    => \/ (old.x = new.x /\ old.y = new.y)
       \/ (<<old.x, old.y>> \in SlidePts1 /\ <<new.x, new.y>> \in SlidePts1)

(***************************************************************************)
(* History of the press being held: the tine the touch landed on (a tine   *)
(* that was not the active one, reported as a change of the touch), the    *)
(* buttons at that tick, the number of                                     *)
(* later ticks the touch stayed on the tine, and every synth command sent  *)
(* from the landing tick on. The record is dropped when the touch leaves   *)
(* the tine, and closed (lifted) by the tick that reports no touch.        *)
(***************************************************************************)
MaxHoldCmds == 4
MaxHoldTicks == 2
NoHold == [tine |-> -1, a |-> FALSE, c |-> FALSE, ticks |-> 0, cmds |-> <<>>,
           lifted |-> FALSE]

CapAppend(s, t) ==
    LET u == s \o t
    IN  IF Len(u) > MaxHoldCmds THEN SubSeq(u, 1, MaxHoldCmds) ELSE u

HoldAfter(h, wasActive, t, a, c, cmds) ==
    LET pos == IF t.points > 0 THEN getKeyAtPosition(t.x, t.y) ELSE -1
        h0 == IF h.lifted THEN NoHold ELSE h
    IN  IF t.points = 0
        THEN IF h0.tine >= 0
             THEN [h0 EXCEPT !.cmds = CapAppend(@, cmds), !.lifted = TRUE]
             ELSE NoHold
        ELSE IF pos < 0 THEN NoHold
        ELSE IF h0.tine = pos
             THEN [h0 EXCEPT !.cmds = CapAppend(@, cmds),
                             !.ticks = IF @ < MaxHoldTicks THEN @ + 1 ELSE @]
        ELSE IF wasActive # pos /\ t.changed
             THEN [tine |-> pos, a |-> a, c |-> c, ticks |-> 0,
                   cmds |-> CapAppend(<<>>, cmds), lifted |-> FALSE]
             ELSE NoHold

(***************************************************************************)
(* History of the ticks without touch: how many in a row (capped), what    *)
(* the first of them sent, and what the later ones sent.                   *)
(***************************************************************************)
MaxLiftTicks == 2
NoLifts == [n |-> 0, first |-> <<>>, later |-> <<>>]

LiftsAfter(l, t, cmds) ==
    IF t.points > 0 THEN NoLifts
    ELSE IF l.n = 0 THEN [n |-> 1, first |-> cmds, later |-> <<>>]
    ELSE [l EXCEPT !.n = IF @ < MaxLiftTicks THEN @ + 1 ELSE @,
                   !.later = CapAppend(@, cmds)]

Init1 ==
    /\ key_pressed = [i \in Tines |-> FALSE]
    /\ active_note_pitch = 0
    /\ active_tine = -1
    /\ prev_offset = 0
    /\ touch = NoTouch
    /\ btnA = FALSE
    /\ btnC = FALSE
    /\ synth1 = <<>>
    /\ lcd1 = <<>>
    /\ idx1 = {}
    /\ tineShown = [i \in Tines |-> FALSE]
    /\ indicator = ""
    /\ sounding1 = {}
    /\ hold = NoHold
    /\ lifts = NoLifts

\* one loop() that reads touch t and the buttons a (flat) and c (sharp)
Tick1(t, a, c) ==
        /\ sketch = 1
        /\ TouchUpdate(touch, t)
        /\ FingerMove(touch, t)
        /\ touch' = t
        /\ btnA' = a
        /\ btnC' = c
        /\ \E offset \in {SemitoneOffset(a, c)} :
           \E st1 \in {PressBlock(St1(key_pressed, active_note_pitch, active_tine,
                                      <<>>, <<>>), t, offset)} :
           \E st2 \in {ReleaseBlock(st1, t)} :
               /\ indicator' = IndicatorAfter(offset, prev_offset, indicator)
               /\ prev_offset' = offset
               /\ key_pressed' = st2.kp
               /\ active_note_pitch' = st2.pitch
               /\ active_tine' = st2.tine
               /\ synth1' = st2.cmds
               /\ lcd1' = st2.draws
               /\ idx1' = st2.idx
               /\ tineShown' = ShownAfter(tineShown, st2.draws)
               /\ sounding1' = SynthAfter(sounding1, st2.cmds)
               /\ hold' = HoldAfter(hold, active_tine, t, a, c, st2.cmds)
               /\ lifts' = LiftsAfter(lifts, t, st2.cmds)
        /\ UNCHANGED <<sketch, vars2, varsH, varsL>>

Loop1 ==
    \E t \in ReadsOf(TouchPts1), a \in BOOLEAN, c \in BOOLEAN : Tick1(t, a, c)

(***************************************************************************)
(* Variant 2: constants and layout                                         *)
(***************************************************************************)
\* NOTE_D5 .. NOTE_E5 of M5UnitSynth.h are the MIDI note numbers
NotesTable == <<74, 71, 67, 64, 60, 57, 53, 50, 36, 52, 55, 59, 62, 65, 69, 72, 76>>
notes(index) == NotesTable[index + 1]

barCount == 17
ScreenWidth == 320
barWidth == ScreenWidth \div barCount
maxHeight == 200
stepHeight == 6
centerIndex == barCount \div 2
barY == 20
Bars == 0 .. (barCount - 1)

\* C++ integer division truncates toward zero
CDiv(a, b) == IF a >= 0 THEN a \div b ELSE -((-a) \div b)

\* mutant: the distance from the centre keeps its sign
getBarHeight_Signed(index) ==
    LET dist == index - centerIndex
        height == maxHeight - dist * stepHeight
    IN  height

getBarHeight(index) ==
    LET d == index - centerIndex
        dist == IF d < 0 THEN -d ELSE d
    IN  maxHeight - dist * stepHeight

\* lines 85-88: the bar under (x, y), -1 when the point is on no bar
BarAt(x, y) ==
    LET barIndex == CDiv(x, barWidth)
    IN  IF barIndex >= 0 /\ barIndex < barCount
        THEN IF y >= barY /\ y <= barY + getBarHeight(barIndex)
             THEN barIndex
             ELSE -1
        ELSE -1

(***************************************************************************)
(* Variant 2: loop()                                                       *)
(***************************************************************************)
St2(sel, last, cmds, draws) ==
    [sel |-> sel, last |-> last, cmds |-> cmds, draws |-> draws, idx |-> {}]

\* drawSingleBar(index, color): hi = TRUE for highlightColor, FALSE for barColor;
\* noteNames[index] is read
drawSingleBar(st, index, hi) ==
    [st EXCEPT !.draws = Append(@, <<index, hi>>), !.idx = @ \cup {index}]

highlightBar(st, index) ==
    [drawSingleBar(st, index, TRUE) EXCEPT !.sel = index]

\* mutant: the pluck sends no note-off
playNoteShort_NoOff(st, index) ==
    IF index >= 0 /\ index < barCount
    THEN [st EXCEPT !.cmds = Append(@, NoteOn(notes(index)))]
    ELSE st

playNoteShort(st, index) ==
    IF index >= 0 /\ index < barCount
    THEN [st EXCEPT !.cmds = @ \o <<NoteOn(notes(index)), NoteOff(notes(index))>>,
                    !.idx = @ \cup {index}]
    ELSE st

\* mutant: the release note is switched off again at once
playNote_OnOff(st, index, onoff) ==
    IF index >= 0 /\ index < barCount
    THEN [st EXCEPT !.cmds = @ \o <<NoteOn(notes(index)), NoteOff(notes(index))>>]
    ELSE st

playNote(st, index, onoff) ==
    IF index >= 0 /\ index < barCount
    THEN [st EXCEPT !.cmds = Append(@, IF onoff THEN NoteOn(notes(index))
                                               ELSE NoteOff(notes(index))),
                    !.idx = @ \cup {index}]
    ELSE st

\* mutant: the selectedBar != barIndex test is missing
OnBar_AlwaysPluck(st, barIndex) ==
    LET u == IF st.sel >= 0 /\ st.sel < barCount
             THEN drawSingleBar(st, st.sel, FALSE)
             ELSE st
        st1 == playNoteShort(highlightBar(u, barIndex), barIndex)
    IN  [st1 EXCEPT !.last = barIndex]

\* mutant: the bar under the finger is not recorded as the last bar pressed
OnBar_NoLast(st, barIndex) ==
    IF st.sel # barIndex
    THEN LET u == IF st.sel >= 0 /\ st.sel < barCount
                  THEN drawSingleBar(st, st.sel, FALSE)
                  ELSE st
         IN  playNoteShort(highlightBar(u, barIndex), barIndex)
    ELSE st

\* lines 90-99: the finger is on bar barIndex
OnBar(st, barIndex) ==
    LET st1 == IF st.sel # barIndex
               THEN LET u == IF st.sel >= 0 /\ st.sel < barCount
                             THEN drawSingleBar(st, st.sel, FALSE)
                             ELSE st
                    IN  playNoteShort(highlightBar(u, barIndex), barIndex)
               ELSE st
    IN  [st1 EXCEPT !.last = barIndex]

\* mutant: leaving the bars also forgets the last bar pressed
Unselect_ClearLast(st) ==
    IF st.sel # -1
    THEN [drawSingleBar(st, st.sel, FALSE) EXCEPT !.sel = -1, !.last = -1]
    ELSE [st EXCEPT !.last = -1]

\* mutant: the highlight is dropped without repainting the bar
Unselect_NoRedraw(st) ==
    IF st.sel # -1
    THEN [st EXCEPT !.sel = -1]
    ELSE st

\* lines 102-105 and 109-112, and 120-123
Unselect(st) ==
    IF st.sel # -1
    THEN [drawSingleBar(st, st.sel, FALSE) EXCEPT !.sel = -1]
    ELSE st

\* mutant: the upper bound of the barIndex test is one too large
PressedTick_WideRange(st, x, y) ==
    LET barIndex == CDiv(x, barWidth)
    IN  IF barIndex >= 0 /\ barIndex <= barCount
        THEN IF y >= barY /\ y <= barY + getBarHeight(barIndex)
             THEN OnBar(st, barIndex)
             ELSE Unselect(st)
        ELSE Unselect(st)

\* lines 82-113
PressedTick(st, x, y) ==
    LET barIndex == CDiv(x, barWidth)
    IN  IF barIndex >= 0 /\ barIndex < barCount
        THEN IF y >= barY /\ y <= barY + getBarHeight(barIndex)
             THEN OnBar(st, barIndex)
             ELSE Unselect(st)
        ELSE Unselect(st)

\* mutant: the release does not forget the last bar pressed
ReleasedTick_KeepLast(st, was) ==
    IF was
    THEN IF st.last # -1
         THEN playNote(Unselect(st), st.last, TRUE)
         ELSE st
    ELSE st

\* mutant: the release plucks the last bar: note-on and note-off
ReleasedTick_Pluck(st, was) ==
    IF was
    THEN IF st.last # -1
         THEN [playNoteShort(Unselect(st), st.last) EXCEPT !.last = -1]
         ELSE st
    ELSE st

\* lines 116-130
ReleasedTick(st, was) ==
    IF was
    THEN IF st.last # -1
         THEN [playNote(Unselect(st), st.last, TRUE) EXCEPT !.last = -1]
         ELSE st
    ELSE st

\* the screen: each drawSingleBar call repaints one bar
RECURSIVE BarShownAfter(_, _)
BarShownAfter(shown, draws) ==
    IF draws = <<>> THEN shown
    ELSE LET d == Head(draws)
         IN  BarShownAfter([shown EXCEPT ![d[1]] = d[2]], Tail(draws))

(***************************************************************************)
(* Variant 2: inputs. Sampled points: inside some bars, below the bottom   *)
(* of bar 0, above the bar top, right of the last bar (bar index 17), and  *)
(* the invalid point (-1, -1) of getPressPoint.                            *)
(***************************************************************************)
SampleBars == {0, 3, 5, 7, 16}
PressPts2 ==
    {<<b * barWidth + 1, barY + 1>> : b \in SampleBars}
    \cup {<<1, barY + getBarHeight(0) + 1>>,
          <<centerIndex * barWidth + 1, barY - 1>>,
          <<barCount * barWidth + 1, barY + 1>>,
          <<-1, -1>>}

NoPress == [pressed |-> FALSE, x |-> -1, y |-> -1]
PressReads ==
    {NoPress} \cup {[pressed |-> TRUE, x |-> q[1], y |-> q[2]] : q \in PressPts2}

(***************************************************************************)
(* History of the current press: the bars the finger came onto, in order   *)
(* (a bar is recorded when the finger is on it and was not on it the tick  *)
(* before), and every synth command sent since the finger went down. It    *)
(* is closed by the release tick. Slides of more than MaxSlide bars are    *)
(* not recorded (over).                                                    *)
(***************************************************************************)
MaxSlide == 3
NoSlide == [bars |-> <<>>, cmds |-> <<>>, on |-> -1, over |-> FALSE, done |-> TRUE]

SlideAfter(s, r, was, cmds) ==
    LET b == IF r.pressed THEN BarAt(r.x, r.y) ELSE -1
        s0 == IF r.pressed /\ ~was
              THEN [bars |-> <<>>, cmds |-> <<>>, on |-> -1, over |-> FALSE,
                    done |-> FALSE]
              ELSE s
    IN  IF ~r.pressed
        THEN IF was /\ ~s0.over
             THEN [s0 EXCEPT !.cmds = @ \o cmds, !.done = TRUE]
             ELSE NoSlide
        ELSE IF s0.over THEN s0
        ELSE IF b >= 0 /\ b # s0.on /\ Len(s0.bars) >= MaxSlide
             THEN [bars |-> <<>>, cmds |-> <<>>, on |-> -1, over |-> TRUE,
                   done |-> FALSE]
        ELSE [s0 EXCEPT !.bars = IF b >= 0 /\ b # s0.on THEN Append(@, b) ELSE @,
                        !.cmds = @ \o cmds,
                        !.on = b]

(***************************************************************************)
(* History of the ticks without press: how many in a row (capped), what    *)
(* the first of them sent, and what the later ones sent.                   *)
(***************************************************************************)
MaxIdleTicks == 2
NoIdle == [n |-> 0, first |-> <<>>, later |-> <<>>]

IdleAfter(l, r, cmds) ==
    IF r.pressed THEN NoIdle
    ELSE IF l.n = 0 THEN [n |-> 1, first |-> cmds, later |-> <<>>]
    ELSE [l EXCEPT !.n = IF @ < MaxIdleTicks THEN @ + 1 ELSE @,
                   !.later = CapAppend(@, cmds)]

(***************************************************************************)
(* Counts of variant 2: excess is the number of note-ons sent so far minus *)
(* the number of note-offs, fires the number of release transitions that   *)
(* fired with lastPressedBar set. Counting stops after MaxTally fires.     *)
(***************************************************************************)
MaxTally == 2
NoTally == [excess |-> 0, fires |-> 0]

RECURSIVE Excess(_)
Excess(cmds) ==
    IF cmds = <<>> THEN 0
    ELSE (IF IsOn(Head(cmds)) THEN 1 ELSE -1) + Excess(Tail(cmds))

\* lines 116-118: the release transition fires with lastPressedBar set
ReleaseFires(r, was, last) == ~r.pressed /\ was /\ last # -1

TallyAfter(n, r, was, last, cmds) ==
    LET e == n.excess + Excess(cmds)
    IN  IF n.fires >= MaxTally THEN n
        ELSE [excess |-> IF e > MaxTally + 1 THEN MaxTally + 1
                         ELSE IF e < -1 THEN -1 ELSE e,
              fires |-> n.fires + (IF ReleaseFires(r, was, last) THEN 1 ELSE 0)]

RECURSIVE SustainedAfter(_, _)
SustainedAfter(sus, cmds) ==
    IF cmds = <<>> THEN sus
    ELSE SustainedAfter(IF IsOn(Head(cmds)) THEN sus \cup {Head(cmds)[2]} ELSE sus,
                        Tail(cmds))

Init2 ==
    /\ selectedBar = -1
    /\ lastPressedBar = -1
    /\ wasPressed = FALSE
    /\ press = NoPress
    /\ synth2 = <<>>
    /\ lcd2 = <<>>
    /\ idx2 = {}
    /\ barShown = [i \in Bars |-> FALSE]
    /\ sustained = {}
    /\ slide = NoSlide
    /\ idle2 = NoIdle
    /\ tally = NoTally

Loop2 ==
    \E r \in PressReads :
        /\ sketch = 2
        /\ \E st1 \in {IF r.pressed
                        THEN PressedTick(St2(selectedBar, lastPressedBar, <<>>, <<>>),
                                         r.x, r.y)
                        ELSE ReleasedTick(St2(selectedBar, lastPressedBar, <<>>, <<>>),
                                          wasPressed)} :
               /\ press' = r
               /\ selectedBar' = st1.sel
               /\ lastPressedBar' = st1.last
               /\ wasPressed' = r.pressed
               /\ synth2' = st1.cmds
               /\ lcd2' = st1.draws
               /\ idx2' = st1.idx
               /\ barShown' = BarShownAfter(barShown, st1.draws)
               /\ sustained' = IF r.pressed THEN sustained
                                ELSE SustainedAfter(sustained, st1.cmds)
               /\ slide' = SlideAfter(slide, r, wasPressed, st1.cmds)
               /\ idle2' = IdleAfter(idle2, r, st1.cmds)
               /\ tally' = TallyAfter(tally, r, wasPressed, lastPressedBar, st1.cmds)
        /\ UNCHANGED <<sketch, vars1, varsH, varsL>>

(***************************************************************************)
(* Hit-test harness                                                        *)
(***************************************************************************)
InitH ==
    /\ hx = 0
    /\ hy = 0
    /\ hit1 = -1
    /\ hit2 = -1
    /\ tested = FALSE

\* every coordinate of the canvas
InitHAll ==
    /\ hx \in 0 .. (DISPLAY_WIDTH - 1)
    /\ hy \in 0 .. (DISPLAY_HEIGHT - 1)
    /\ hit1 = -1
    /\ hit2 = -1
    /\ tested = FALSE

HitTest ==
    /\ ~tested
    /\ tested' = TRUE
    /\ hit1' = getKeyAtPosition(hx, hy)
    /\ hit2' = BarAt(hx, hy)
    /\ UNCHANGED <<sketch, hx, hy, vars1, vars2, varsL>>

(***************************************************************************)
(* Layout harness                                                          *)
(***************************************************************************)
InitL ==
    /\ lpos = 0
    /\ lother = 0
    /\ tineH = <<>>
    /\ barH = <<>>

\* every pair of positions of the instrument
InitLAll ==
    /\ lpos \in Tines
    /\ lother \in Tines
    /\ tineH = <<>>
    /\ barH = <<>>

Measure ==
    /\ tineH = <<>>
    /\ tineH' = <<getTineHeight(lpos), getTineHeight(lother)>>
    /\ barH' = <<getBarHeight(lpos), getBarHeight(lother)>>
    /\ UNCHANGED <<sketch, lpos, lother, vars1, vars2, varsH>>

Next1 == Loop1
Next2 == Loop2
NextH == HitTest
NextL == Measure
\* a loop() that reads zero touch points: the finger is off the screen
LiftTick ==
    \E t \in ReadsOf({}), a \in BOOLEAN, c \in BOOLEAN : Tick1(t, a, c)
\* the device runs one of the two sketches
NextEither == Loop1 \/ Loop2

Init == sketch \in Sketches /\ Init1 /\ Init2 /\ InitH /\ InitL
InitHit == sketch \in Sketches /\ Init1 /\ Init2 /\ InitHAll /\ InitL
InitLayout == sketch \in Sketches /\ Init1 /\ Init2 /\ InitH /\ InitLAll

SpecV1 == Init /\ [][Next1]_vars
SpecV2 == Init /\ [][Next2]_vars
SpecHit == InitHit /\ [][NextH]_vars
SpecLayout == InitLayout /\ [][NextL]_vars
SpecEither == Init /\ [][NextEither]_vars
\* variant 1 with a player who lifts the finger again and again
SpecV1Live == Init /\ [][Next1]_vars /\ WF_vars(LiftTick)

(***************************************************************************)
(* Properties                                                              *)
(***************************************************************************)
\* the offset the buttons stand for: sharp +1, else flat -1, else 0
ClaimOffset(a, c) == IF c THEN 1 ELSE IF a THEN -1 ELSE 0

\* the tine under the first touch point of the last tick, -1 for none
PressedTine == IF touch.points > 0 THEN getKeyAtPosition(touch.x, touch.y) ELSE -1

\* the pitch of the held press: base pitch plus the offset of the press tick
HoldPitch == tine_notes(hold.tine) + ClaimOffset(hold.a, hold.c)

\* C1: a press landing on tine P and held there sends exactly one note-on in
\* total, the ticks of the hold send nothing, and the lift that follows sends
\* exactly one note-off, for the pitch of that note-on: the base pitch of P plus
\* the offset of the buttons at the press tick.
C1_PressHoldLift ==
    hold.tine >= 0 =>
        /\ SelectSeq(hold.cmds, IsOn) = <<NoteOn(HoldPitch)>>
        /\ (~hold.lifted /\ hold.ticks > 0) => synth1 = <<>>
        /\ hold.lifted => synth1 = <<NoteOff(HoldPitch)>>

\* C1 witness: pressed with sharp held, held for a tick or more, lifted with
\* flat held instead: the note-off carries the sharp pitch.
C1_Witness ==
    /\ hold.tine >= 0 /\ hold.lifted /\ hold.ticks >= 1
    /\ hold.c /\ ~hold.a /\ btnA /\ ~btnC
    /\ synth1 = <<NoteOff(tine_notes(hold.tine) + 1)>>

\* C2: at most one pitch is sounding after every tick, and a tick that moves
\* the touch from the active tine Q onto another tine P sends the note-off for
\* Q's stored pitch first and the note-on for P's pitch second.
C2_OneSounding ==
    [][ /\ Cardinality(sounding1') <= 1
        /\ LET P == getKeyAtPosition(touch'.x, touch'.y)
           IN  (/\ active_tine >= 0
                /\ touch'.changed /\ touch'.points > 0
                /\ P >= 0 /\ P # active_tine)
               => synth1' = <<NoteOff(active_note_pitch),
                              NoteOn(tine_notes(P) + ClaimOffset(btnA', btnC'))>>
      ]_vars

\* C2 witness: a slide tick: note-off of one pitch, then note-on of another,
\* which is the only pitch sounding.
C2_Witness ==
    /\ Len(synth1) = 2
    /\ IsOff(synth1[1]) /\ IsOn(synth1[2])
    /\ synth1[1][2] # synth1[2][2]
    /\ sounding1 = {synth1[2][2]}

\* C3: of two or more ticks in a row without touch, only the first can send a
\* note-off; every later one sends nothing and leaves the state Idle.
C3_ReleaseIdempotent ==
    lifts.n >= 2 =>
        /\ lifts.later = <<>>
        /\ synth1 = <<>>
        /\ active_tine = -1
        /\ \A i \in Tines : ~key_pressed[i]

\* C3 witness: the first tick without touch sent the note-off, a second one
\* followed and sent nothing.
C3_Witness ==
    /\ lifts.n >= 2
    /\ Len(lifts.first) = 1 /\ IsOff(lifts.first[1])
    /\ lifts.later = <<>>

\* C4 as stated: the note-on of a press on P has pitch base + 1 when sharp is
\* held, base - 1 when flat is held, base when neither is.
C4_AsStated ==
    \A k \in DOMAIN synth1 :
        IsOn(synth1[k]) =>
            /\ PressedTine \in Tines
            /\ btnC => synth1[k][2] = tine_notes(PressedTine) + 1
            /\ btnA => synth1[k][2] = tine_notes(PressedTine) - 1
            /\ (~btnA /\ ~btnC) => synth1[k][2] = tine_notes(PressedTine)

\* C4 amended: base + 1 when sharp is held (flat held or not), base - 1 when
\* flat is held and sharp is not, base when neither is.
C4_PressPitch ==
    \A k \in DOMAIN synth1 :
        IsOn(synth1[k]) =>
            /\ PressedTine \in Tines
            /\ btnC => synth1[k][2] = tine_notes(PressedTine) + 1
            /\ (btnA /\ ~btnC) => synth1[k][2] = tine_notes(PressedTine) - 1
            /\ (~btnA /\ ~btnC) => synth1[k][2] = tine_notes(PressedTine)

\* C4 witness: the rightmost tine pressed with both buttons held sounds sharp.
C4_Witness ==
    /\ btnA /\ btnC
    /\ PressedTine = NumTines - 1
    /\ synth1 = <<NoteOn(tine_notes(NumTines - 1) + 1)>>

\* bar b's band on the screen: drawn at x = b * barWidth, from barY down
InBand(b, x, y) ==
    /\ b * barWidth <= x /\ x < (b + 1) * barWidth
    /\ barY <= y /\ y <= barY + getBarHeight(b)

OutsideBands(x, y) == \A b \in Bars : ~InBand(b, x, y)

RECURSIVE PlucksOf(_)
PlucksOf(bars) ==
    IF bars = <<>> THEN <<>>
    ELSE <<NoteOn(notes(Head(bars))), NoteOff(notes(Head(bars)))>>
         \o PlucksOf(Tail(bars))

ConsecutiveDistinct(bars) == \A k \in 1 .. (Len(bars) - 1) : bars[k] # bars[k + 1]

LastBar(bars) == bars[Len(bars)]

\* C5: a slide over bars b1 .. bn (consecutive bars distinct), then released,
\* sends exactly pluck(b1) .. pluck(bn) and then one note-on for bn's pitch,
\* where pluck(b) is note-on then note-off for b's pitch.
C5_SlideCommands ==
    (slide.done /\ ~slide.over /\ slide.bars # <<>> /\ ConsecutiveDistinct(slide.bars))
    => slide.cmds = PlucksOf(slide.bars) \o <<NoteOn(notes(LastBar(slide.bars)))>>

\* C5 witness: the slide 3 -> 5 -> 7 of the spec, released.
C5_Witness ==
    /\ slide.done /\ ~press.pressed
    /\ slide.bars = <<3, 5, 7>>
    /\ synth2 = <<NoteOn(notes(7))>>

\* C6 as stated: once a release has switched a pitch on, no later tick sends a
\* note-off for that pitch.
C6_AsStated ==
    [][ \A p \in sustained : \A k \in DOMAIN synth2' : synth2'[k] # NoteOff(p) ]_vars

\* C6 amended: a tick without touch sends no note-off at all, and once a
\* release has switched a pitch on, a later tick sends a note-off for it only as
\* the pluck of the bar of that pitch: a pressed tick that moves selected onto
\* that bar and sends note-on, note-off for it and nothing else.
C6_SustainUntilPluck ==
    [][ /\ ~press'.pressed => \A k \in DOMAIN synth2' : ~IsOff(synth2'[k])
        /\ \A p \in sustained :
              (\E k \in DOMAIN synth2' : synth2'[k] = NoteOff(p))
              => /\ press'.pressed
                 /\ \E b \in Bars : /\ InBand(b, press'.x, press'.y)
                                     /\ notes(b) = p
                                     /\ selectedBar # b
                                     /\ selectedBar' = b
                 /\ synth2' = <<NoteOn(p), NoteOff(p)>>
      ]_vars

\* C6 witness: a pitch switched on by a release is plucked again.
C6_Witness ==
    \E p \in sustained : press.pressed /\ synth2 = <<NoteOn(p), NoteOff(p)>>

\* C7: a pressed tick whose point is outside every bar band sets selected to
\* none, sends nothing and leaves lastPressed alone; a release right after it
\* sends the note-on for the last bar touched during the slide.
C7_OutsideBand ==
    [][ /\ (press'.pressed /\ OutsideBands(press'.x, press'.y))
           => /\ selectedBar' = -1
              /\ synth2' = <<>>
              /\ lastPressedBar' = lastPressedBar
        /\ (/\ press.pressed /\ OutsideBands(press.x, press.y)
            /\ ~press'.pressed
            /\ ~slide.over /\ slide.bars # <<>>)
           => synth2' = <<NoteOn(notes(LastBar(slide.bars)))>>
      ]_vars

\* C7 witness: released from outside the bars after a slide that touched one.
C7_Witness ==
    /\ ~press.pressed /\ slide.done /\ slide.on = -1
    /\ slide.bars # <<>>
    /\ synth2 = <<NoteOn(notes(LastBar(slide.bars)))>>

\* C8: a pressed tick on bar B while selected is B sends nothing, redraws no
\* bar and leaves selected and lastPressed as they were.
C8_HoldSilent ==
    [][ \A b \in Bars :
          (press'.pressed /\ InBand(b, press'.x, press'.y) /\ selectedBar = b)
          => /\ synth2' = <<>>
             /\ lcd2' = <<>>
             /\ selectedBar' = selectedBar
             /\ lastPressedBar' = lastPressedBar
      ]_vars

\* C8 witness: the state after a tick that held steady on the selected bar.
C8_Witness ==
    /\ press.pressed /\ selectedBar \in Bars
    /\ InBand(selectedBar, press.x, press.y)
    /\ lastPressedBar = selectedBar
    /\ synth2 = <<>> /\ lcd2 = <<>>

\* C9: for every pos the point (x(pos) + 1, bridge_y + 1) resolves to pos and
\* every point (x, bridge_y - 1) resolves to none, in getKeyAtPosition
\* (variant 1) and in the band test of variant 2.
C9_HitTestPoints ==
    tested =>
        /\ \A pos \in Tines :
              (hx = getTineX(pos) + 1 /\ hy = BRIDGE_Y + 1) => hit1 = pos
        /\ hy = BRIDGE_Y - 1 => hit1 = -1
        /\ \A pos \in Bars :
              (hx = pos * barWidth + 1 /\ hy = barY + 1) => hit2 = pos
        /\ hy = barY - 1 => hit2 = -1

\* C9 witness: the point one pixel inside the rightmost tine, tested.
C9_Witness ==
    /\ tested
    /\ hx = getTineX(NumTines - 1) + 1 /\ hy = BRIDGE_Y + 1
    /\ hit1 = NumTines - 1
    /\ hit2 = barCount - 1

\* the tines whose band holds (x, y)
TineMatches(x, y) ==
    {pos \in Tines : /\ getTineX(pos) <= x /\ x < getTineX(pos) + TINE_WIDTH
                     /\ BRIDGE_Y <= y /\ y <= BRIDGE_Y + getTineHeight(pos)}

\* C10: every canvas coordinate lies in the band of at most one tine;
\* getKeyAtPosition returns that tine when there is one and -1 otherwise.
C10_UniqueMatch ==
    tested =>
        LET M == TineMatches(hx, hy)
        IN  /\ Cardinality(M) <= 1
            /\ M = {} => hit1 = -1
            /\ M # {} => hit1 \in M

\* C10 witness: a point just below the tip of tine 0 resolves to none.
C10_Witness ==
    /\ tested
    /\ hx = getTineX(0) + 1 /\ hy = BRIDGE_Y + getTineHeight(0) + 1
    /\ hit1 = -1


\* C11: the heights of both layouts are symmetric about the centre and
\* largest at the centre: a position and its mirror image 16 - pos get the
\* same height, position 8 is at least as tall as any other, and the
\* variant 2 bars are 152 high at positions 0 and 16 and 200 at position 8.
C11_LayoutSymmetric ==
    tineH # <<>> =>
        /\ lother = (NumTines - 1) - lpos =>
               tineH[1] = tineH[2] /\ barH[1] = barH[2]
        /\ lother = 8 => tineH[2] >= tineH[1] /\ barH[2] >= barH[1]
        /\ lpos \in {0, 16} => barH[1] = 152
        /\ lpos = 8 => barH[1] = 200

\* the two edges have been measured
C11_Witness ==
    /\ lpos = 0 /\ lother = 16
    /\ tineH # <<>> /\ tineH[1] = tineH[2]
    /\ barH = <<152, 152>>

\* C12: in variant 1 the pressed flags and active_tine agree in every
\* reachable state: key_pressed[i] is set exactly when i is active_tine, so
\* at most one flag is set and none is set while active_tine is -1.
C12_FlagMatchesActive ==
    /\ active_tine \in {-1} \cup Tines
    /\ \A i \in Tines : key_pressed[i] <=> (i = active_tine)
    /\ Cardinality({i \in Tines : key_pressed[i]}) <= 1

\* a slide has moved the flag from one tine to the next
C12_Witness ==
    /\ active_tine = 7
    /\ key_pressed[7]
    /\ lcd1 = <<<<6, FALSE>>, <<7, TRUE>>>>

\* C13 as stated: a variant 2 touch with bar index 17 uses no array at all
C13_AsStated ==
    (press.pressed /\ CDiv(press.x, barWidth) = barCount) => idx2 = {}

\* C13: in both variants every index used on a per-tine array during a tick
\* is within 0..16; a variant 2 touch at x in 306..319 (bar index 17) uses
\* no index 17 and sends nothing: the only array access it can cause is the
\* redraw of the bar that was highlighted, in the bar colour.
C13_IndicesInRange ==
    /\ idx1 \subseteq Tines
    /\ idx2 \subseteq Bars
    /\ (press.pressed /\ CDiv(press.x, barWidth) = barCount) =>
           /\ synth2 = <<>>
           /\ \/ lcd2 = <<>> /\ idx2 = {}
              \/ \E b \in Bars : lcd2 = <<<<b, FALSE>>>> /\ idx2 = {b}

\* the finger slid from the last bar to the strip right of it
C13_Witness ==
    /\ press.pressed /\ press.x \in 306 .. 319
    /\ CDiv(press.x, barWidth) = 17
    /\ lcd2 = <<<<16, FALSE>>>>
    /\ idx2 = {16}

\* every note-on of cmds is sent while nothing sounds on the synth
RECURSIVE OnWhenSilent(_, _)
OnWhenSilent(snd, cmds) ==
    IF cmds = <<>> THEN TRUE
    ELSE /\ IsOn(Head(cmds)) => snd = {}
         /\ OnWhenSilent(SynthAfter(snd, <<Head(cmds)>>), Tail(cmds))

\* C14: in variant 1, when the finger is lifted again and again, every note
\* switched on is switched off later: whenever a pitch sounds, a state
\* follows in which no pitch sounds, and no note-on is sent while an earlier
\* note-on still lacks its note-off.
C14_NoteOffFollows ==
    /\ [][OnWhenSilent(sounding1, synth1')]_vars
    /\ (sounding1 # {}) ~> (sounding1 = {})

\* a note was switched on, then the lift has switched it off
C14_Witness ==
    /\ touch.points = 0
    /\ synth1 = <<NoteOff(tine_notes(9) - 1)>>
    /\ sounding1 = {}

\* the tines and bars painted in the pressed colour are the highlighted ones
ShownInSync ==
    /\ \A i \in Tines : tineShown[i] <=> (i = active_tine)
    /\ \A i \in Bars : barShown[i] <=> (i = selectedBar)

\* every repaint of the tick is of a tine or bar whose flag the tick changed
RedrawOnlyChanged ==
    /\ \A k \in 1 .. Len(lcd1') :
           LET i == lcd1'[k][1] IN key_pressed[i] # key_pressed'[i]
    /\ \A k \in 1 .. Len(lcd2') :
           LET i == lcd2'[k][1] IN (selectedBar = i) # (selectedBar' = i)

\* C15: in both variants the screen follows the gesture state: after every
\* tick the tines painted in the pressed colour are exactly {active_tine}
\* (variant 1) and the bars painted in the highlight colour are exactly
\* {selectedBar} (variant 2), none when the value is -1, and a tick repaints
\* a tine or bar only if its pressed or highlighted flag changed in that tick.
C15_RendererInSync ==
    /\ []ShownInSync
    /\ [][RedrawOnlyChanged]_vars

\* the highlight has moved from one bar to another, and in the other sketch
\* a tine is painted pressed
C15_Witness ==
    \/ /\ selectedBar = 5 /\ barShown[5] /\ ~barShown[3]
       /\ lcd2 = <<<<3, FALSE>>, <<5, TRUE>>>>
    \/ /\ active_tine = 8 /\ tineShown[8] /\ ~tineShown[9]
       /\ lcd1 = <<<<9, FALSE>>, <<8, TRUE>>>>

\* C16: in variant 1, while a tine is active and the touch of the tick is
\* on that tine, the tick sends nothing and keeps active_tine and
\* active_note_pitch, whatever the flat and sharp buttons are: the offset of
\* the sounding note is the one of its note-on.
C16_OffsetLocked ==
    [][ (/\ active_tine \in Tines
         /\ touch'.points > 0
         /\ getKeyAtPosition(touch'.x, touch'.y) = active_tine)
        => /\ synth1' = <<>>
           /\ active_tine' = active_tine
           /\ active_note_pitch' = active_note_pitch
      ]_vars

\* a tine pressed with sharp is held while sharp is let go and flat is held
C16_Witness ==
    /\ hold.tine \in Tines /\ ~hold.lifted /\ hold.ticks >= 1
    /\ hold.c /\ ~hold.a /\ btnA /\ ~btnC
    /\ active_tine = hold.tine /\ PressedTine = hold.tine
    /\ active_note_pitch = tine_notes(hold.tine) + 1
    /\ sounding1 = {active_note_pitch}
    /\ synth1 = <<>>

\* C17: in variant 1, while a tine is active, a tick whose touch point lies
\* on no tine sends nothing and keeps key_pressed, active_tine and
\* active_note_pitch, so the note keeps sounding; an active note is only
\* ended by a tick with zero touch points or a touch on a different tine.
C17_OffTineKeepsNote ==
    [][ LET pos == IF touch'.points > 0
                   THEN getKeyAtPosition(touch'.x, touch'.y) ELSE -1
        IN  /\ (active_tine \in Tines /\ touch'.points > 0 /\ pos = -1)
               => /\ synth1' = <<>>
                  /\ key_pressed' = key_pressed
                  /\ active_tine' = active_tine
                  /\ active_note_pitch' = active_note_pitch
                  /\ sounding1' = sounding1
            /\ (active_tine \in Tines /\ synth1' # <<>>)
               => \/ touch'.points = 0
                  \/ pos \in Tines /\ pos # active_tine
      ]_vars

\* the finger has slid off the tines and the note still sounds
C17_Witness ==
    /\ active_tine \in Tines /\ key_pressed[active_tine]
    /\ touch.points > 0 /\ PressedTine = -1
    /\ synth1 = <<>>
    /\ sounding1 = {active_note_pitch}

\* C18: in variant 2, after every tick selectedBar and lastPressedBar are
\* each -1 or a bar index 0..16; when selectedBar is a bar, lastPressedBar is
\* the same bar; and after a tick in which the screen is not pressed both
\* are -1.
C18_SelectionInvariant ==
    /\ selectedBar \in {-1} \cup Bars
    /\ lastPressedBar \in {-1} \cup Bars
    /\ selectedBar # -1 => lastPressedBar = selectedBar
    /\ ~press.pressed => (selectedBar = -1 /\ lastPressedBar = -1)

\* the finger has left bar 16 for a point outside the bands: nothing is
\* selected and the last bar pressed is still remembered
C18_Witness ==
    /\ press.pressed /\ OutsideBands(press.x, press.y)
    /\ selectedBar = -1
    /\ lastPressedBar = 16

\* C19: in variant 2 the release note-on is sent at most once per press and
\* release, and only by the first not-pressed tick after a pressed tick: that
\* tick sends nothing or one note-on, a not-pressed tick that follows a
\* not-pressed tick sends nothing, and the release of a press that never lay
\* on a bar sends nothing.
C19_ReleaseFiresOnce ==
    /\ [](/\ idle2.later = <<>>
          /\ idle2.first = <<>> \/ \E b \in Bars : idle2.first = <<NoteOn(notes(b))>>)
    /\ [][ /\ (~press.pressed /\ ~press'.pressed) => synth2' = <<>>
           /\ (/\ press.pressed /\ ~press'.pressed
               /\ slide.bars = <<>> /\ ~slide.over)
              => synth2' = <<>>
         ]_vars

\* the release has sent its note-on and the next tick without press is silent
C19_Witness ==
    /\ ~press.pressed
    /\ idle2.n = 2
    /\ idle2.first = <<NoteOn(notes(7))>>
    /\ idle2.later = <<>>
    /\ synth2 = <<>>

\* C20: in variant 2, after any sequence of ticks the number of note-ons
\* sent minus the number of note-offs sent equals the number of release
\* transitions that fired with lastPressedBar set: a pressed tick sends
\* nothing or one note-on followed by the note-off of the same pitch, and a
\* single note-on is only sent by a release transition that fires.
C20_OnOffBalance ==
    /\ [](tally.excess = tally.fires)
    /\ [][ /\ press'.pressed =>
                \/ synth2' = <<>>
                \/ \E b \in Bars : synth2' = <<NoteOn(notes(b)), NoteOff(notes(b))>>
           /\ ~press'.pressed =>
                \/ synth2' = <<>>
                \/ /\ ReleaseFires(press', wasPressed, lastPressedBar)
                   /\ synth2' = <<NoteOn(notes(lastPressedBar))>>
         ]_vars

\* two releases have fired, the second after a slide of two plucks or more
C20_Witness ==
    /\ tally.fires = 2 /\ tally.excess = 2
    /\ ~press.pressed /\ slide.done /\ Len(slide.bars) >= 2
    /\ Excess(slide.cmds) = 1
    /\ synth2 = <<NoteOn(notes(LastBar(slide.bars)))>>
====
